---- MODULE Spec2Model ----
(***************************************************************************)
(* OutfitDetailScreen (src/src/screens/OutfitDetailScreen.tsx): the        *)
(* detail/edit screen of one outfit.  The model follows one screen         *)
(* instance opened for the outfit identifier OutfitId: its React state     *)
(* (localOutfit, isDirty), the outfit store's record for that identifier,  *)
(* the modal alert that is on display, and the calls the last handler      *)
(* made to the store and to the navigation.                                *)
(***************************************************************************)
EXTENDS Integers, Sequences, FiniteSets

VARIABLES
    store,        \* getOutfit(id): the store's record for id, or NoOutfit
    mounted,      \* the screen instance is on the navigation stack
    localOutfit,  \* useState<Outfit | undefined>(contextOutfit), line 35
    isDirty,      \* useState(false), line 36
    alert,        \* the Alert.alert dialog on display, "none" when there is none
    promptOutfit, \* localOutfit as captured by the handlers of the open
                  \* "unsaved" alert (the render that created them)
    calls,        \* store/navigation calls made by the last handler, in order
    event,        \* the last event handled
    input,        \* the argument the last event came with: <<tag>> for the
                  \* tag editor, <<selection>> for a toggle, <<>> otherwise
    draft,        \* history: the snapshot as the user's edits alone made it
                  \* (the record it had when the screen was last clean plus
                  \* the fields edited since); a resync of a dirty screen and
                  \* a save do not touch it
    effectPending,\* a render is committed whose effect (lines 39-43) has not
                  \* run yet: the first render of the screen, or one that read a
                  \* new contextOutfit (line 32)
    fieldChange,  \* <<field, value>> as the last event passed them to
                  \* handleFieldChange, <<>> when it made no such call
    localIsContext\* localOutfit is the very object getOutfit(id) returns
                  \* (contextOutfit), not a copy an updater made

vars == <<store, mounted, localOutfit, isDirty, alert, promptOutfit, calls, event, input,
          draft, effectPending, fieldChange, localIsContext>>

----------------------------------------------------------------------------
(* Bounds and value domains *)

\* longest tag sequence the tag editor is driven to
MaxTags == 2

\* route.params.id, line 20
OutfitId == "o1"

\* the value of an absent record: getOutfit(id) === undefined
NoOutfit == [undefined |-> TRUE]

\* tags the user types into TagChips
TagNames == {"casual", "summer"}

\* the option lists of ../data/options offered by the two MultiSelectToggles
seasons == {"Summer"}
occasions == {"Work"}

\* records other writers of the store (the edit canvas, other screens) put
\* under id; they differ from each other in every field but the identifier
ExternalOutfits ==
    { [id |-> OutfitId, imageUri |-> "img1", tags |-> <<>>,
       clothingItems |-> <<"c1">>, season |-> {}, occasion |-> {}],
      [id |-> OutfitId, imageUri |-> "img2", tags |-> <<"casual">>,
       clothingItems |-> <<"c1", "c2">>, season |-> {"Summer"}, occasion |-> {"Work"}] }

----------------------------------------------------------------------------
(* The outfit store (OutfitContext), a key-value collaborator *)

\* store.get(id)
getOutfit(s) == s

\* store.update(outfit): whole-record replace of the record under outfit.id
updateOutfit(s, outfit) == outfit

\* store.delete(id)
deleteOutfit(s) == NoOutfit

\* the clothing store (ClothingContext): the identifiers getClothingItem
\* finds; "c2" is a reference to an item that is gone
ClothingIds == {"c1"}
getClothingItem(itemId) == itemId \in ClothingIds

\* the calls a handler can make
UpdateCall(outfit) == [op |-> "updateOutfit", outfit |-> outfit]
DeleteCall == [op |-> "deleteOutfit", id |-> OutfitId]
GoBackCall == [op |-> "goBack"]
NavigateCall(screen) == [op |-> "navigate", screen |-> screen]

----------------------------------------------------------------------------
(* Rendering *)

\* line 45: if (!localOutfit) the placeholder is returned instead of the form
NotFoundShown == mounted /\ localOutfit = NoOutfit
FormShown == mounted /\ localOutfit # NoOutfit

\* the form's handlers can be reached: the form is rendered and no modal
\* alert covers it
FormActive == FormShown /\ alert = "none"

\* variant: the Save button is rendered whether or not the screen is dirty
SaveButtonAlways == FormShown

\* lines 186-190: {isDirty && <Pressable onPress={handleSave}>}
SaveButtonShown == FormShown /\ isDirty

\* the buttons of each alert, in the order the code lists them
AlertButtons(a) ==
    CASE a = "delete"  -> <<"Cancel", "Delete">>
      [] a = "unsaved" -> <<"Discard", "Save">>
      [] a = "success" -> <<"OK">>
      [] OTHER         -> <<>>

Offered(a, button) == \E i \in 1..Len(AlertButtons(a)) : AlertButtons(a)[i] = button

\* variant: a dirty screen keeps its snapshot when the store's record changes
ResyncKeepsDirtySnapshot(contextOutfit, local) ==
    IF contextOutfit # NoOutfit /\ ~isDirty THEN contextOutfit ELSE local

\* variant: the snapshot follows the store also when the record is removed
ResyncUnconditional(contextOutfit, local) == contextOutfit

\* lines 39-43: the effect that runs when contextOutfit changes identity
Resync(contextOutfit, local) ==
    IF contextOutfit # NoOutfit THEN contextOutfit ELSE local

\* a pending effect runs before the next render: the setLocalOutfit it makes
\* is queued behind the state updates of the handler that caused the render
FlushEffect(local) ==
    IF effectPending THEN Resync(getOutfit(store), local) ELSE local

----------------------------------------------------------------------------
Init ==
    /\ store \in ExternalOutfits \cup {NoOutfit}
    /\ mounted = TRUE
    /\ localOutfit = getOutfit(store)
    /\ isDirty = FALSE
    /\ alert = "none"
    /\ promptOutfit = NoOutfit
    /\ calls = <<>>
    /\ event = "mount"
    /\ input = <<>>
    /\ draft = getOutfit(store)
    /\ effectPending = TRUE
    /\ localIsContext = TRUE
    /\ fieldChange = <<>>

----------------------------------------------------------------------------
(* Mounting: lines 32-36 *)

\* variant: a reopened screen keeps the state of the instance before it
MountKeepsState ==
    /\ ~mounted
    /\ alert = "none"
    /\ mounted' = TRUE
    /\ promptOutfit' = NoOutfit
    /\ calls' = <<>>
    /\ event' = "mount"
    /\ input' = <<>>
    /\ fieldChange' = <<>>
    /\ effectPending' = TRUE
    /\ localIsContext' = TRUE
    /\ UNCHANGED <<store, alert, localOutfit, isDirty, draft>>

\* the screen is opened (again) for id: fresh component state; the effect of
\* lines 39-43 is left to run after this first render is committed
Mount ==
    /\ ~mounted
    /\ alert = "none"
    /\ mounted' = TRUE
    /\ localOutfit' = getOutfit(store)
    /\ isDirty' = FALSE
    /\ promptOutfit' = NoOutfit
    /\ calls' = <<>>
    /\ event' = "mount"
    /\ input' = <<>>
    /\ fieldChange' = <<>>
    /\ draft' = getOutfit(store)
    /\ effectPending' = TRUE
    /\ localIsContext' = TRUE
    /\ UNCHANGED <<store, alert>>

----------------------------------------------------------------------------
(* The store changes under the screen: lines 32 and 39-43 *)

\* line 32: another writer leaves `now` under id; getOutfit(id) returns a new
\* value and the screen re-renders with it.  The render is committed with
\* localOutfit as it is: the effect of lines 39-43 is left to run after the
\* commit.  An effect still pending from the render before runs first.
StoreChanged(now) ==
    /\ store' = now
    /\ localOutfit' = IF mounted THEN FlushEffect(localOutfit) ELSE localOutfit
    /\ draft' = IF mounted /\ ~isDirty THEN FlushEffect(localOutfit) ELSE draft
    /\ effectPending' = mounted
    /\ localIsContext' = FALSE
    /\ calls' = <<>>
    /\ UNCHANGED <<mounted, isDirty, alert, promptOutfit>>

ExternalUpdate ==
    \E now \in ExternalOutfits :
        /\ StoreChanged(now)
        /\ event' = IF store = NoOutfit THEN "externalAppear" ELSE "externalUpdate"
        /\ input' = <<>>
        /\ fieldChange' = <<>>

ExternalRemove ==
    /\ store # NoOutfit
    /\ StoreChanged(NoOutfit)
    /\ event' = "externalRemove"
    /\ input' = <<>>
    /\ fieldChange' = <<>>

\* variant: the effect also clears the dirty flag
useEffectClearsDirty ==
    /\ mounted
    /\ effectPending
    /\ localOutfit' = Resync(getOutfit(store), localOutfit)
    /\ draft' = IF ~isDirty THEN Resync(getOutfit(store), localOutfit) ELSE draft
    /\ isDirty' = FALSE
    /\ effectPending' = FALSE
    /\ localIsContext' = IF getOutfit(store) # NoOutfit THEN TRUE ELSE localIsContext
    /\ calls' = <<>>
    /\ event' = "useEffect"
    /\ input' = <<>>
    /\ fieldChange' = <<>>
    /\ UNCHANGED <<store, mounted, alert, promptOutfit>>

\* lines 39-43: the effect of the committed render runs with the
\* contextOutfit that render read.  isDirty is no part of the effect.
useEffect ==
    /\ mounted
    /\ effectPending
    /\ localOutfit' = Resync(getOutfit(store), localOutfit)
    /\ draft' = IF ~isDirty THEN Resync(getOutfit(store), localOutfit) ELSE draft
    /\ effectPending' = FALSE
    /\ localIsContext' = IF getOutfit(store) # NoOutfit THEN TRUE ELSE localIsContext
    /\ calls' = <<>>
    /\ event' = "useEffect"
    /\ input' = <<>>
    /\ fieldChange' = <<>>
    /\ UNCHANGED <<store, mounted, isDirty, alert, promptOutfit>>

----------------------------------------------------------------------------
(* Field editing: lines 75-81 and 129-181 *)

\* variant: the updater rebuilds the record without its clothing items
SetFieldDropsItems(prevOutfit, field, value) ==
    IF prevOutfit = NoOutfit THEN prevOutfit
    ELSE [[prevOutfit EXCEPT ![field] = value] EXCEPT !.clothingItems = <<>>]

\* lines 76-79: the updater passed to setLocalOutfit
SetField(prevOutfit, field, value) ==
    IF prevOutfit = NoOutfit THEN prevOutfit
    ELSE [prevOutfit EXCEPT ![field] = value]

\* variant: a tag that is already present is not added again
AddTagUnique(tags, tag) ==
    IF \E i \in 1..Len(tags) : tags[i] = tag THEN tags ELSE Append(tags, tag)

\* variant: only the first occurrence of the tag is removed
RemoveFirstTag(tags, tag) ==
    IF \E i \in 1..Len(tags) : tags[i] = tag
    THEN LET k == CHOOSE i \in 1..Len(tags) :
                      tags[i] = tag /\ \A j \in 1..(i - 1) : tags[j] # tag
         IN SubSeq(tags, 1, k - 1) \o SubSeq(tags, k + 1, Len(tags))
    ELSE tags

\* line 132: [...localOutfit.tags, tag]
AddTag(tags, tag) == Append(tags, tag)

\* line 137: localOutfit.tags.filter((t) => t !== tag)
RemoveTag(tags, tag) == SelectSeq(tags, LAMBDA t : t # tag)

\* variant: an edit that does not mark the screen dirty
handleFieldChangeNotDirty(field, value) ==
    /\ localOutfit' = FlushEffect(SetField(localOutfit, field, value))
    /\ effectPending' = FALSE
    /\ localIsContext' = (effectPending /\ getOutfit(store) # NoOutfit)
    /\ fieldChange' = <<field, value>>
    /\ draft' = SetField(IF isDirty THEN draft ELSE localOutfit, field, value)
    /\ calls' = <<>>
    /\ UNCHANGED <<store, mounted, isDirty, alert, promptOutfit>>

\* variant: every edit is written through to the store
handleFieldChangeAutosaves(field, value) ==
    /\ localOutfit' = FlushEffect(SetField(localOutfit, field, value))
    /\ effectPending' = FALSE
    /\ localIsContext' = (effectPending /\ getOutfit(store) # NoOutfit)
    /\ fieldChange' = <<field, value>>
    /\ isDirty' = TRUE
    /\ draft' = SetField(IF isDirty THEN draft ELSE localOutfit, field, value)
    /\ store' = updateOutfit(store, SetField(localOutfit, field, value))
    /\ calls' = <<UpdateCall(SetField(localOutfit, field, value))>>
    /\ UNCHANGED <<mounted, alert, promptOutfit>>

\* lines 75-81
handleFieldChange(field, value) ==
    /\ localOutfit' = FlushEffect(SetField(localOutfit, field, value))
    /\ effectPending' = FALSE
    /\ localIsContext' = (effectPending /\ getOutfit(store) # NoOutfit)
    /\ fieldChange' = <<field, value>>
    /\ isDirty' = TRUE
    /\ draft' = SetField(IF isDirty THEN draft ELSE localOutfit, field, value)
    /\ calls' = <<>>
    /\ UNCHANGED <<store, mounted, alert, promptOutfit>>

\* lines 131-133
onAddTag ==
    /\ FormActive
    /\ Len(localOutfit.tags) < MaxTags
    /\ \E tag \in TagNames :
           /\ handleFieldChange("tags", AddTag(localOutfit.tags, tag))
           /\ input' = <<tag>>
    /\ event' = "onAddTag"

\* lines 134-139
onRemoveTag ==
    /\ FormActive
    /\ \E tag \in TagNames \cup {localOutfit.tags[i] : i \in 1..Len(localOutfit.tags)} :
           /\ handleFieldChange("tags", RemoveTag(localOutfit.tags, tag))
           /\ input' = <<tag>>
    /\ event' = "onRemoveTag"

\* line 171
onSeasonChange ==
    /\ FormActive
    /\ \E selectedSeasons \in SUBSET seasons :
           /\ handleFieldChange("season", selectedSeasons)
           /\ input' = <<selectedSeasons>>
    /\ event' = "onSeasonChange"

\* line 180
onOccasionChange ==
    /\ FormActive
    /\ \E selectedOccasions \in SUBSET occasions :
           /\ handleFieldChange("occasion", selectedOccasions)
           /\ input' = <<selectedOccasions>>
    /\ event' = "onOccasionChange"

----------------------------------------------------------------------------
(* Save: lines 67-73 *)

\* handleSave as bound to `snapshot`, the localOutfit of the render that
\* created it; `after` are the calls its caller makes once it returns
handleSave(snapshot, after) ==
    IF snapshot # NoOutfit
    THEN /\ store' = updateOutfit(store, snapshot)
         /\ isDirty' = FALSE
         /\ alert' = "success"
         /\ calls' = <<UpdateCall(snapshot)>> \o after
    ELSE /\ UNCHANGED <<store, isDirty>>
         /\ alert' = "none"
         /\ calls' = after

\* lines 186-190: the Save button.  An effect still pending runs before the
\* render the press causes.  The object written is what getOutfit(id) returns
\* in that render: when it is not the object contextOutfit was, the press
\* leaves the effect of lines 39-43 pending on it; when localOutfit is that
\* very object, contextOutfit keeps its identity and no effect follows.
PressSave ==
    /\ FormActive
    /\ SaveButtonShown
    /\ handleSave(localOutfit, <<>>)
    /\ localOutfit' = FlushEffect(localOutfit)
    /\ effectPending' = ~localIsContext
    /\ localIsContext' = (localIsContext \/ ~(effectPending /\ getOutfit(store) # NoOutfit))
    /\ event' = "pressSave"
    /\ input' = <<>>
    /\ fieldChange' = <<>>
    /\ UNCHANGED <<mounted, promptOutfit, draft>>

\* the "Success" alert is acknowledged
DismissSuccess ==
    /\ alert = "success"
    /\ Offered(alert, "OK")
    /\ alert' = "none"
    /\ calls' = <<>>
    /\ event' = "dismissSuccess"
    /\ input' = <<>>
    /\ fieldChange' = <<>>
    /\ UNCHANGED <<store, mounted, localOutfit, isDirty, promptOutfit, draft, effectPending, localIsContext>>

----------------------------------------------------------------------------
(* Delete: lines 53-65 *)

\* variant: the record is deleted without a confirmation prompt
handleDeleteNoConfirm ==
    /\ FormActive
    /\ store' = deleteOutfit(store)
    /\ calls' = <<DeleteCall, GoBackCall>>
    /\ mounted' = FALSE
    /\ event' = "handleDelete"
    /\ input' = <<>>
    /\ fieldChange' = <<>>
    /\ effectPending' = FALSE
    /\ UNCHANGED localIsContext
    /\ UNCHANGED <<localOutfit, isDirty, alert, promptOutfit, draft>>

\* variant: the header's delete action is reachable from the placeholder too
handleDeleteWithoutForm ==
    /\ mounted
    /\ alert = "none"
    /\ alert' = "delete"
    /\ calls' = <<>>
    /\ event' = "handleDelete"
    /\ input' = <<>>
    /\ fieldChange' = <<>>
    /\ UNCHANGED <<store, mounted, localOutfit, isDirty, promptOutfit, draft, effectPending, localIsContext>>

\* lines 53-54
handleDelete ==
    /\ FormActive
    /\ alert' = "delete"
    /\ calls' = <<>>
    /\ event' = "handleDelete"
    /\ input' = <<>>
    /\ fieldChange' = <<>>
    /\ UNCHANGED <<store, mounted, localOutfit, isDirty, promptOutfit, draft, effectPending, localIsContext>>

\* variant: cancelling the delete prompt clears the dirty flag
CancelDeleteClearsDirty ==
    /\ alert = "delete"
    /\ Offered(alert, "Cancel")
    /\ alert' = "none"
    /\ isDirty' = FALSE
    /\ calls' = <<>>
    /\ event' = "cancelDelete"
    /\ input' = <<>>
    /\ fieldChange' = <<>>
    /\ UNCHANGED <<store, mounted, localOutfit, promptOutfit, draft, effectPending, localIsContext>>

\* line 55
CancelDelete ==
    /\ alert = "delete"
    /\ Offered(alert, "Cancel")
    /\ alert' = "none"
    /\ calls' = <<>>
    /\ event' = "cancelDelete"
    /\ input' = <<>>
    /\ fieldChange' = <<>>
    /\ UNCHANGED <<store, mounted, localOutfit, isDirty, promptOutfit, draft, effectPending, localIsContext>>

\* lines 56-63
ConfirmDelete ==
    /\ alert = "delete"
    /\ Offered(alert, "Delete")
    /\ store' = deleteOutfit(store)
    /\ calls' = <<DeleteCall, GoBackCall>>
    /\ mounted' = FALSE
    /\ alert' = "none"
    /\ event' = "confirmDelete"
    /\ input' = <<>>
    /\ fieldChange' = <<>>
    /\ effectPending' = FALSE
    /\ UNCHANGED localIsContext
    /\ UNCHANGED <<localOutfit, isDirty, promptOutfit, draft>>

----------------------------------------------------------------------------
(* Back navigation: lines 92-111 *)

\* variant: a dirty screen is left without asking
onBackNeverPrompts ==
    /\ FormActive
    /\ mounted' = FALSE
    /\ calls' = <<GoBackCall>>
    /\ event' = "onBack"
    /\ input' = <<>>
    /\ fieldChange' = <<>>
    /\ effectPending' = FALSE
    /\ UNCHANGED localIsContext
    /\ UNCHANGED <<store, localOutfit, isDirty, alert, promptOutfit, draft>>

\* variant: the prompt is shown whether or not the screen is dirty
onBackAlwaysPrompts ==
    /\ FormActive
    /\ alert' = "unsaved"
    /\ promptOutfit' = localOutfit
    /\ calls' = <<>>
    /\ event' = "onBack"
    /\ input' = <<>>
    /\ fieldChange' = <<>>
    /\ UNCHANGED <<store, mounted, localOutfit, isDirty, draft, effectPending, localIsContext>>

onBack ==
    /\ FormActive
    /\ IF isDirty
       THEN /\ alert' = "unsaved"
            /\ promptOutfit' = localOutfit
            /\ calls' = <<>>
            /\ UNCHANGED <<mounted, effectPending, localIsContext>>
       ELSE /\ mounted' = FALSE
            /\ calls' = <<GoBackCall>>
            /\ effectPending' = FALSE
            /\ UNCHANGED localIsContext
            /\ UNCHANGED <<alert, promptOutfit>>
    /\ event' = "onBack"
    /\ input' = <<>>
    /\ fieldChange' = <<>>
    /\ UNCHANGED <<store, localOutfit, isDirty, draft>>

\* variant: the discard option saves before it leaves
PressDiscardSaves ==
    /\ alert = "unsaved"
    /\ Offered(alert, "Discard")
    /\ handleSave(promptOutfit, <<GoBackCall>>)
    /\ mounted' = FALSE
    /\ promptOutfit' = NoOutfit
    /\ event' = "pressDiscard"
    /\ input' = <<>>
    /\ fieldChange' = <<>>
    /\ effectPending' = FALSE
    /\ UNCHANGED localIsContext
    /\ UNCHANGED <<localOutfit, draft>>

\* lines 95-99
PressDiscard ==
    /\ alert = "unsaved"
    /\ Offered(alert, "Discard")
    /\ alert' = "none"
    /\ mounted' = FALSE
    /\ calls' = <<GoBackCall>>
    /\ promptOutfit' = NoOutfit
    /\ event' = "pressDiscard"
    /\ input' = <<>>
    /\ fieldChange' = <<>>
    /\ effectPending' = FALSE
    /\ UNCHANGED localIsContext
    /\ UNCHANGED <<store, localOutfit, isDirty, draft>>

\* lines 100-106: handleSave() of the render that opened the alert, then
\* navigation.goBack(); the screen leaves the stack
PressSaveOption ==
    /\ alert = "unsaved"
    /\ Offered(alert, "Save")
    /\ handleSave(promptOutfit, <<GoBackCall>>)
    /\ mounted' = FALSE
    /\ promptOutfit' = NoOutfit
    /\ event' = "pressSaveOption"
    /\ input' = <<>>
    /\ fieldChange' = <<>>
    /\ effectPending' = FALSE
    /\ UNCHANGED localIsContext
    /\ UNCHANGED <<localOutfit, draft>>

----------------------------------------------------------------------------
(* Pass-through navigation: lines 83-85 and 154 *)

handleEditOutfit ==
    /\ FormActive
    /\ calls' = <<NavigateCall("OutfitCanvas")>>
    /\ event' = "handleEditOutfit"
    /\ input' = <<>>
    /\ fieldChange' = <<>>
    /\ UNCHANGED <<store, mounted, localOutfit, isDirty, alert, promptOutfit, draft,
                   effectPending, localIsContext>>

\* lines 147-158: a thumbnail is rendered for the items the clothing store
\* finds, and pressing it opens that item's detail screen
onPressThumbnail ==
    /\ FormActive
    /\ \E i \in 1..Len(localOutfit.clothingItems) :
           getClothingItem(localOutfit.clothingItems[i])
    /\ calls' = <<NavigateCall("ClothingDetail")>>
    /\ event' = "onPressThumbnail"
    /\ input' = <<>>
    /\ fieldChange' = <<>>
    /\ UNCHANGED <<store, mounted, localOutfit, isDirty, alert, promptOutfit, draft,
                   effectPending, localIsContext>>

----------------------------------------------------------------------------
Next ==
    \/ Mount
    \/ ExternalUpdate
    \/ ExternalRemove
    \/ useEffect
    \/ onAddTag
    \/ onRemoveTag
    \/ onSeasonChange
    \/ onOccasionChange
    \/ PressSave
    \/ DismissSuccess
    \/ handleDelete
    \/ CancelDelete
    \/ ConfirmDelete
    \/ onBack
    \/ PressDiscard
    \/ PressSaveOption
    \/ handleEditOutfit
    \/ onPressThumbnail

Spec == Init /\ [][Next]_vars

----------------------------------------------------------------------------
(* The tag editor on its own: lines 129-140 applied to stored outfits whose  *)
(* tag lists are drawn from every sequence of up to MaxTagInput tags         *)

\* longest tag sequence of a stored outfit the tag editor is opened on
MaxTagInput == 3

\* tags of stored outfits: those the user types and one more
StoredTagNames == TagNames \cup {"red"}

TagSeqs == UNION { [1..n -> StoredTagNames] : n \in 0..MaxTagInput }

TagOutfits ==
    { [id |-> OutfitId, imageUri |-> "img1", tags |-> t, clothingItems |-> <<"c1">>,
       season |-> se, occasion |-> oc] :
      t \in TagSeqs, se \in SUBSET seasons, oc \in SUBSET occasions }

\* the screen as mounted on one of these outfits
TagInit ==
    /\ store \in TagOutfits
    /\ mounted = TRUE
    /\ localOutfit = getOutfit(store)
    /\ isDirty = FALSE
    /\ alert = "none"
    /\ promptOutfit = NoOutfit
    /\ calls = <<>>
    /\ event = "mount"
    /\ input = <<>>
    /\ draft = getOutfit(store)
    /\ effectPending = TRUE
    /\ localIsContext = TRUE
    /\ fieldChange = <<>>

TagNext ==
    \/ useEffect
    \/ onAddTag
    \/ onRemoveTag

TagSpec == TagInit /\ [][TagNext]_vars

----------------------------------------------------------------------------
(* Properties *)

CallOps(cs) == [i \in 1..Len(cs) |-> cs[i].op]
Calls(cs, op) == \E i \in 1..Len(cs) : cs[i].op = op

\* C1 (as stated): the prompt shown for a dirty back-navigation offers three
\* choices, cancel, discard and save.
C1_PromptOffersCancel ==
    alert = "unsaved" =>
        /\ Len(AlertButtons(alert)) = 3
        /\ Offered(alert, "Cancel")
        /\ Offered(alert, "Discard")
        /\ Offered(alert, "Save")

\* C1 (amended): a back-navigation request on a dirty screen opens a prompt
\* with exactly two choices, discard and save, and no cancel; opening it
\* keeps the screen open, leaves localOutfit, isDirty and the store's record
\* unchanged and makes no goBack and no store.update call; whichever choice
\* closes the prompt leaves the screen through goBack.
C1_DirtyBackOpensTwoChoicePrompt ==
    /\ [][(event' = "onBack" /\ isDirty) =>
            /\ alert' = "unsaved"
            /\ AlertButtons(alert') = <<"Discard", "Save">>
            /\ mounted'
            /\ localOutfit' = localOutfit
            /\ isDirty' = isDirty
            /\ store' = store
            /\ calls' = <<>>]_vars
    /\ [][(alert = "unsaved" /\ alert' # "unsaved") =>
            /\ ~mounted'
            /\ calls'[Len(calls')] = GoBackCall]_vars

C1_Witness ==
    /\ event = "onBack"
    /\ alert = "unsaved"
    /\ mounted
    /\ isDirty
    /\ localOutfit # store
    /\ calls = <<>>

\* C2: the save option of the prompt calls store.update exactly once with
\* the current local snapshot, clears isDirty, then calls goBack.
C2_SaveOptionWritesCurrentSnapshot ==
    [][event' = "pressSaveOption" =>
        /\ calls' = <<UpdateCall(localOutfit), GoBackCall>>
        /\ isDirty' = FALSE]_vars

\* C3: the discard option of the prompt calls goBack and makes no store
\* call; the store's record is the same after it as before, whatever edits
\* the local snapshot holds.
C3_DiscardLeavesStore ==
    [][event' = "pressDiscard" =>
        /\ alert = "unsaved"
        /\ calls' = <<GoBackCall>>
        /\ store' = store
        /\ ~mounted']_vars

C3_Witness ==
    /\ event = "pressDiscard"
    /\ calls = <<GoBackCall>>
    /\ ~mounted
    /\ isDirty
    /\ store # NoOutfit
    /\ localOutfit # store

\* the fields no editor of the screen names
Unedited(o) == <<o.id, o.imageUri, o.clothingItems>>

ExternalEvents == {"externalUpdate", "externalAppear", "externalRemove"}
SaveEvents == {"pressSave", "pressSaveOption"}

\* C4 (as stated): when the user had edited fields and the store's record
\* was then changed externally (the effect of that change has run), the Save
\* button writes the snapshot derived from the older record plus the user's
\* edits.
C4_SaveWritesOlderRecordPlusEdits ==
    [][(event' = "pressSave" /\ isDirty /\ event = "useEffect" /\ store # NoOutfit)
       => store' = draft]_vars

\* C4 (amended): the Save button makes no concurrency check and replaces the
\* store's record entirely with the snapshot the form holds.  When the
\* record was changed externally after the user edited, the Save button
\* overwrites the external change with a snapshot derived from the older
\* record only when it is pressed before the effect of that change has run;
\* once the effect has run the snapshot is the new store value, so the Save
\* button writes that value back: the user's edits are lost and the external
\* change stays.
C4_SaveWritesHeldSnapshot ==
    /\ [][event' = "pressSave" =>
            /\ calls' = <<UpdateCall(localOutfit)>>
            /\ store' = localOutfit]_vars
    /\ [][(event' = "pressSave" /\ event = "useEffect" /\ store # NoOutfit)
           => store' = store]_vars
    /\ [][(event' = "pressSave" /\ store # NoOutfit
            /\ Unedited(store') # Unedited(store)) => effectPending]_vars
    /\ [][(event' = "pressSave" /\ effectPending /\ event \in ExternalEvents)
           => (store' = localOutfit /\ localOutfit' = Resync(store, localOutfit))]_vars

\* the user edited a record, the store received another one, its effect ran
\* and Save wrote the store's record back
C4_Witness ==
    /\ event = "pressSave"
    /\ mounted
    /\ ~isDirty
    /\ store \in ExternalOutfits
    /\ draft # NoOutfit
    /\ draft.imageUri # store.imageUri
    /\ draft.tags # store.tags

\* C5 (as stated): every external change of the store's value for id, a
\* removal included, replaces the local snapshot of the mounted screen by
\* the new store value: once the effect has run the snapshot is the store's value.
C5_ResyncOnEveryChange ==
    [][event' = "useEffect" => localOutfit' = store']_vars

\* C5 (amended): after an external change of the store's value for id the
\* mounted screen re-renders with its snapshot as it was, and the effect that
\* runs after that render replaces the snapshot by the new store value when
\* the change was an update of the record or the appearance of a record that
\* was absent, dirty or not; after a removal of the record the effect leaves
\* the snapshot as it was.
C5_ResyncUnlessRemoved ==
    /\ [][event' = "useEffect" =>
            /\ mounted /\ effectPending /\ ~effectPending'
            /\ store' = store
            /\ (store # NoOutfit => localOutfit' = store)
            /\ (store = NoOutfit => localOutfit' = localOutfit)]_vars
    /\ [][(event' \in ExternalEvents /\ mounted) =>
            /\ effectPending'
            /\ (~effectPending => localOutfit' = localOutfit)
            /\ (effectPending => localOutfit' = Resync(store, localOutfit))]_vars

C5_Witness ==
    /\ event = "useEffect"
    /\ mounted
    /\ isDirty
    /\ localOutfit = store
    /\ draft # localOutfit

\* C6: the external change and the resynchronisation that follows it leave
\* isDirty as it was, dirty or clean.
C6_ResyncKeepsDirtyFlag ==
    [][event' \in ExternalEvents \cup {"useEffect"} => isDirty' = isDirty]_vars

C6_Witness ==
    /\ event = "useEffect"
    /\ FormShown
    /\ isDirty
    /\ localOutfit = store

\* C7 (as stated): whenever the form is shown and isDirty is false, the
\* local snapshot equals the store's current record for id.
C7_CleanMeansEqualToStore ==
    (FormShown /\ ~isDirty) => localOutfit = store

\* C7 (amended): whenever the form is shown, isDirty is false, the store
\* has a record for id and no effect of lines 39-43 is pending, the local
\* snapshot equals that record, and so it does right after a Save press made
\* with no effect pending; between an external change and its effect a clean
\* form shows the record from before the change, and after an external
\* removal it keeps showing the removed record.
C7_CleanMeansEqualToStoredRecord ==
    /\ []((FormShown /\ ~isDirty /\ store # NoOutfit /\ ~effectPending)
            => localOutfit = store)
    /\ [][(event' = "pressSave" /\ ~effectPending) =>
            (FormShown' /\ ~isDirty' /\ localOutfit' = store')]_vars

C7_Witness ==
    /\ FormShown
    /\ ~isDirty
    /\ ~effectPending
    /\ event = "useEffect"
    /\ store \notin ExternalOutfits
    /\ store # NoOutfit
    /\ localOutfit = store

\* C8: whenever a save runs with a defined local snapshot, store.update
\* receives the whole local snapshot; immediately afterwards the store's
\* record equals the local snapshot in every field and isDirty is false.
C8_SaveWritesWholeRecord ==
    [][(event' \in SaveEvents /\ localOutfit # NoOutfit) =>
        /\ calls'[1] = UpdateCall(localOutfit)
        /\ DOMAIN store' = DOMAIN localOutfit'
        /\ \A f \in DOMAIN localOutfit' : store'[f] = localOutfit'[f]
        /\ isDirty' = FALSE]_vars

\* C9: a confirmed delete prompt calls store.delete(id) once and then
\* goBack; a cancelled one calls neither and changes nothing of the screen;
\* store.delete is called by no other step.
C9_DeleteOnlyOnConfirm ==
    /\ [][event' = "confirmDelete" =>
            /\ alert = "delete"
            /\ calls' = <<DeleteCall, GoBackCall>>
            /\ ~mounted']_vars
    /\ [][event' = "cancelDelete" =>
            /\ calls' = <<>>
            /\ alert' = "none"
            /\ UNCHANGED <<store, mounted, localOutfit, isDirty>>]_vars
    /\ [][Calls(calls', "deleteOutfit") =>
            (alert = "delete" /\ event' = "confirmDelete")]_vars

C9_Witness ==
    /\ event = "confirmDelete"
    /\ calls = <<DeleteCall, GoBackCall>>
    /\ store = NoOutfit
    /\ ~mounted

\* C10: a back-navigation request on a clean screen calls goBack at once,
\* shows no prompt and makes no store call.
C10_CleanBackLeaves ==
    [][(event' = "onBack" /\ ~isDirty) =>
        /\ calls' = <<GoBackCall>>
        /\ alert' = "none"
        /\ store' = store
        /\ ~mounted']_vars

C10_Witness ==
    /\ event = "onBack"
    /\ ~isDirty
    /\ ~mounted
    /\ calls = <<GoBackCall>>
    /\ alert = "none"

EditEvents == {"onAddTag", "onRemoveTag", "onSeasonChange", "onOccasionChange"}

\* the field each editor passes to handleFieldChange
FieldOf(e) ==
    CASE e \in {"onAddTag", "onRemoveTag"} -> "tags"
      [] e = "onSeasonChange" -> "season"
      [] e = "onOccasionChange" -> "occasion"

C12_NoRecordMeansNotFound ==
    (mounted /\ store = NoOutfit) => NotFoundShown

\* C12 (amended): when the store has no record for id at mount, the screen
\* renders the not-found placeholder instead of the form and keeps rendering
\* it while the store has none; once a record appeared the placeholder stays
\* only until the effect of that render has run.  When the record is removed
\* while the form is open, the form stays, showing the snapshot it had or the
\* record the store held before the removal.
C12_NotFoundFromMountOnly ==
    /\ []((event = "mount" /\ store = NoOutfit) => NotFoundShown)
    /\ []((NotFoundShown /\ ~effectPending) => store = NoOutfit)
    /\ [][(NotFoundShown /\ store = NoOutfit /\ store' = NoOutfit /\ event' # "mount")
           => NotFoundShown']_vars
    /\ [][(FormShown /\ event' = "externalRemove") =>
            (FormShown' /\ localOutfit' \in {localOutfit, store})]_vars
    /\ [][(FormShown /\ event' = "useEffect" /\ store = NoOutfit) =>
            (FormShown' /\ localOutfit' = localOutfit)]_vars

C12_Witness ==
    /\ event = "useEffect"
    /\ store = NoOutfit
    /\ FormShown
    /\ ~NotFoundShown

\* C13: when the store has no record for id at mount the screen is in the
\* not-found state, and while it is in that state no step calls
\* store.update or store.delete: the only events possible are changes made
\* to the store by others and the effect that follows them.
C13_NotFoundMakesNoStoreCall ==
    /\ []((event = "mount" /\ store = NoOutfit) => NotFoundShown)
    /\ [][NotFoundShown =>
            /\ ~Calls(calls', "updateOutfit")
            /\ ~Calls(calls', "deleteOutfit")
            /\ event' \in ExternalEvents \cup {"useEffect"}]_vars

C13_Witness ==
    /\ event = "mount"
    /\ store = NoOutfit
    /\ NotFoundShown
    /\ ~isDirty
    /\ alert = "none"
    /\ calls = <<>>

\* C14: right after the screen is mounted with the id of an outfit present
\* in the store, the local snapshot equals that outfit in every field and
\* isDirty is false.
C14_MountCopiesStore ==
    (event = "mount" /\ store # NoOutfit) =>
        /\ mounted
        /\ DOMAIN localOutfit = DOMAIN store
        /\ \A f \in DOMAIN store : localOutfit[f] = store[f]
        /\ isDirty = FALSE

C14_Witness ==
    /\ event = "mount"
    /\ store # NoOutfit
    /\ store \notin ExternalOutfits
    /\ localOutfit = store
    /\ ~isDirty

\* C15: removing a tag t passes to handleFieldChange, as the new value of
\* tags, the tag sequence of the form with every occurrence of t removed and
\* the remaining tags in their original relative order; removing a tag that
\* does not occur passes the sequence unchanged.
C15_RemoveTagDropsEveryOccurrence ==
    [][event' = "onRemoveTag" =>
        LET t == input'[1]
            old == localOutfit.tags
            new == fieldChange'[2]
            Kept == {i \in 1..Len(old) : old[i] # t}
        IN /\ fieldChange'[1] = "tags"
           /\ Len(new) = Cardinality(Kept)
           /\ \A i \in Kept : new[Cardinality({j \in Kept : j <= i})] = old[i]
           /\ ((\A i \in 1..Len(old) : old[i] # t) => new = old)
           /\ (~effectPending => localOutfit'.tags = new)]_vars

C15_Witness ==
    /\ event = "onRemoveTag"
    /\ input = <<"casual">>
    /\ store.tags = <<"casual", "summer", "casual">>
    /\ fieldChange = <<"tags", <<"summer">> >>
    /\ localOutfit.tags = <<"summer">>

\* C16: adding a tag t passes to handleFieldChange, as the new value of tags,
\* the tag sequence of the form with t appended as the last element, also
\* when t already occurs: the length grows by exactly one and the earlier
\* elements keep their positions.
C16_AddTagAppends ==
    [][event' = "onAddTag" =>
        LET t == input'[1]
            old == localOutfit.tags
            new == fieldChange'[2]
        IN /\ fieldChange'[1] = "tags"
           /\ Len(new) = Len(old) + 1
           /\ new[Len(new)] = t
           /\ \A i \in 1..Len(old) : new[i] = old[i]
           /\ (~effectPending => localOutfit'.tags = new)]_vars

C16_Witness ==
    /\ event = "onAddTag"
    /\ input = <<"casual">>
    /\ store.tags = <<"casual">>
    /\ fieldChange = <<"tags", <<"casual", "casual">> >>
    /\ localOutfit.tags = <<"casual", "casual">>

\* C17: a tag add, tag remove, season change or occasion change leaves the
\* store's record unchanged and makes no store call; the screen changes the
\* store only through save (store.update) and confirmed delete
\* (store.delete).
C17_EditsLeaveStore ==
    /\ [][event' \in EditEvents => (store' = store /\ calls' = <<>>)]_vars
    /\ [][Calls(calls', "updateOutfit") => event' \in SaveEvents]_vars
    /\ [][Calls(calls', "deleteOutfit") => event' = "confirmDelete"]_vars
    /\ [][store' # store =>
            event' \in SaveEvents \cup {"confirmDelete"} \cup ExternalEvents]_vars

C17_Witness ==
    /\ event \in EditEvents
    /\ FormShown
    /\ isDirty
    /\ calls = <<>>
    /\ store # NoOutfit
    /\ localOutfit.tags # store.tags
    /\ localOutfit.season # store.season

\* C18: store.update is only called from a state where isDirty is true: the
\* Save button is rendered only while dirty and the prompt with the save
\* option is open only while dirty.
C18_UpdateOnlyWhenDirty ==
    /\ [][Calls(calls', "updateOutfit") => isDirty]_vars
    /\ [](alert = "unsaved" => isDirty)

C18_Witness ==
    /\ event = "pressSave"
    /\ Calls(calls, "updateOutfit")
    /\ mounted
    /\ ~isDirty

\* C19: within one screen instance isDirty goes from false to true only by
\* a field edit and from true to false only by a save; prompts, resyncs and
\* navigation leave it as it is, and after a save it stays false until the
\* next field edit.
C19_DirtyChangesOnlyByEditAndSave ==
    [][(isDirty' # isDirty /\ event' # "mount") =>
        \/ (isDirty' /\ event' \in EditEvents)
        \/ (~isDirty' /\ event' \in SaveEvents)]_vars

C19_Witness ==
    /\ event = "handleEditOutfit"
    /\ FormShown
    /\ ~isDirty
    /\ store # NoOutfit
    /\ store \notin ExternalOutfits
    /\ localOutfit = store

\* C20: the snapshot's identifier, image reference and clothingItems are
\* those of the store record it was derived from, so a save never alters
\* those three fields relative to that record.
C20_SaveKeepsUneditedFields ==
    [][(event' \in SaveEvents /\ store # NoOutfit
        /\ Unedited(localOutfit) = Unedited(store))
       => Unedited(store') = Unedited(store)]_vars

====
